---- MODULE Spec2Model ----
(***************************************************************************)
(* DEVRate compiler sandbox.                                               *)
(*                                                                         *)
(*   devratebe/server.js        the Execution Relay: POST /api/execute     *)
(*   devratedraft/src/App.jsx   the client: readiness, editor, terminal,   *)
(*                              run                                        *)
(*                                                                         *)
(* The two halves share no state.  SpecRelay runs the relay's handler for  *)
(* a few interleaved requests, SpecClient runs the React component.        *)
(***************************************************************************)
EXTENDS Naturals, Integers, Sequences, FiniteSets, TLC

(***************************************************************************)
(* Bounds                                                                  *)
(***************************************************************************)
\* number of requests the relay handles, interleaved at their awaits
MaxReq == 2
\* number of runs whose delayed result has not been rendered yet
MaxPending == 2
\* tokens of the argument of a print call given to the renderer
MaxArgLen == 3
\* lines of a buffer given to the renderer
MaxLines == 2

VARIABLES
    \* ---- relay (server.js), one entry per request ----
    pc,             \* where the handler of the request stands
    reqBody,        \* req.body as express.json() parsed it
    upstream,       \* what the upstream provider answered so far
    upstreamCalls,  \* payloads handed to fetch(JD_API_URL, ...) for the request
    sent,           \* responses written to res for the request
    \* ---- client (App.jsx) ----
    code,                 \* useState: the buffer
    isReady,              \* useState: controls the Run button
    isLoading,            \* useState: controls the loading screen
    winMonaco,            \* window.monaco is set
    winTerminal,          \* window.Terminal is set
    winFitAddon,          \* window.FitAddon is set
    mounted,              \* the component is mounted
    pollTimer,            \* the interval of the library poll
    editor,               \* the Monaco instance
    editorCleanup,        \* the editor effect's last run returned a cleanup
    settleTimer,          \* the setTimeout(..., 500) is pending
    termSteps,            \* the steps of initTerminal that completed
    terminalInstanceRef,  \* terminalInstanceRef.current
    termDisposed,         \* term.dispose() was called
    resizeListener,       \* handleResize is registered on window
    termCleanup,          \* the cleanup the terminal effect holds
    screen,               \* the lines the terminal shows
    deadWrites,           \* a write or clear reached a disposed terminal
    pendingRuns,          \* the setTimeout(..., 1000) callbacks not yet run
    netRequests,          \* HTTP requests the client has issued
    editorsCreated,       \* calls of monaco.editor.create that returned
    terminalsCreated,     \* calls of new Terminal(...) that returned
    event,                \* the last thing that happened
    \* ---- the renderer (getSimulatedOutput) on its own ----
    renderInput,          \* the buffer handed to getSimulatedOutput
    renderOutput          \* what it returned, <<>> before the call

relayVars == <<pc, reqBody, upstream, upstreamCalls, sent>>

\* what the component and its widgets hold
clientState ==
    <<code, isReady, isLoading, mounted, pollTimer, editor, editorCleanup,
      settleTimer, termSteps, terminalInstanceRef, termDisposed,
      resizeListener, termCleanup, screen, deadWrites, pendingRuns,
      netRequests, editorsCreated, terminalsCreated>>

renderVars == <<renderInput, renderOutput>>

clientVars ==
    <<clientState, winMonaco, winTerminal, winFitAddon, event, renderVars>>

vars == <<relayVars, clientVars>>

(***************************************************************************)
(* Relay: values                                                           *)
(***************************************************************************)
Reqs == 1..MaxReq

\* a property the JSON body does not have: destructuring yields undefined
Undefined == "<undefined>"

\* server.js:14-15, read from the environment at start-up
CLIENT_ID == "<env JDOODLE_CLIENT_ID>"
CLIENT_SECRET == "<env JDOODLE_CLIENT_SECRET>"
JD_API_URL == "https://api.jdoodle.com/v1/execute"

Credentials == {CLIENT_ID, CLIENT_SECRET}

\* what a client may put in the JSON body; clientId and clientSecret are
\* fields the handler does not read, present for a client that tries to
\* choose the credentials itself
ScriptValues == {Undefined, "", "print(1)"}
LanguageValues == {Undefined, "", "python"}
ForgedValues == {Undefined, "forged"}

Bodies ==
    { b \in [script : ScriptValues, language : LanguageValues,
             clientId : ForgedValues, clientSecret : ForgedValues] :
        b.clientId = b.clientSecret }

NoBody == [script |-> Undefined, language |-> Undefined,
           clientId |-> Undefined, clientSecret |-> Undefined]

\* JavaScript's !v for the values a JSON string property can take here
Falsy(v) == v = Undefined \/ v = ""

(***************************************************************************)
(* JSON texts are sequences of tokens: the punctuation, a blank, a junk    *)
(* token that no JSON text contains, and literals (anything else).  The    *)
(* texts of the model are flat objects, as the provider's results are.     *)
(***************************************************************************)
Blank == " "
Punct == {"{", "}", ":", ","}
Junk == {"<html>"}
IsLiteral(t) == t \notin Punct /\ t \notin Junk /\ t # Blank

RECURSIVE StripBlanks(_)
StripBlanks(s) ==
    IF s = <<>> THEN <<>>
    ELSE IF Head(s) = Blank THEN StripBlanks(Tail(s))
    ELSE <<Head(s)>> \o StripBlanks(Tail(s))

\* members  ::=  literal ":" literal ( "," literal ":" literal )*
RECURSIVE IsMembers(_)
IsMembers(s) ==
    /\ Len(s) >= 3
    /\ IsLiteral(s[1]) /\ s[2] = ":" /\ IsLiteral(s[3])
    /\ \/ Len(s) = 3
       \/ Len(s) > 4 /\ s[4] = "," /\ IsMembers(SubSeq(s, 5, Len(s)))

IsObjectText(s) ==
    /\ Len(s) >= 2
    /\ s[1] = "{" /\ s[Len(s)] = "}"
    /\ \/ Len(s) = 2
       \/ IsMembers(SubSeq(s, 2, Len(s) - 1))

\* a parsed object: its properties in insertion order, <<key, value>> each
HasKey(obj, k) == \E i \in 1..Len(obj) : obj[i][1] = k

\* obj[k] = v: a new key is appended, an old one keeps its place
SetKey(obj, k, v) ==
    IF HasKey(obj, k)
    THEN [i \in 1..Len(obj) |-> IF obj[i][1] = k THEN <<k, v>> ELSE obj[i]]
    ELSE Append(obj, <<k, v>>)

RECURSIVE MembersOf(_, _)
MembersOf(s, obj) ==
    IF Len(s) < 3 THEN obj
    ELSE MembersOf(SubSeq(s, 5, Len(s)), SetKey(obj, s[1], s[3]))

\* JSON.parse / Response.json(): ok = FALSE is the SyntaxError
JSONparse(text) ==
    LET s == StripBlanks(text) IN
    IF IsObjectText(s)
    THEN [ok |-> TRUE, value |-> MembersOf(SubSeq(s, 2, Len(s) - 1), <<>>)]
    ELSE [ok |-> FALSE, value |-> <<>>]

RECURSIVE StringifyMembers(_)
StringifyMembers(obj) ==
    IF obj = <<>> THEN <<>>
    ELSE IF Len(obj) = 1 THEN <<obj[1][1], ":", obj[1][2]>>
    ELSE <<obj[1][1], ":", obj[1][2], ",">> \o StringifyMembers(Tail(obj))

\* JSON.stringify of an object: no blanks, properties in insertion order
JSONstringify(obj) == <<"{">> \o StringifyMembers(obj) \o <<"}">>

\* Bodies the provider may answer with: a result, the same with blanks, a
\* result with two properties, one with a repeated key, an empty body and
\* an HTML error page.  The provider is taken not to send the credentials
\* back: what it sends is its own.
UpstreamTexts ==
    { <<"{", "output", ":", "42", "}">>,
      <<"{", Blank, "output", ":", Blank, "42", Blank, "}">>,
      <<"{", "output", ":", "42", ",", "statusCode", ":", "200", "}">>,
      <<"{", "output", ":", "1", ",", "output", ":", "42", "}">>,
      <<>>,
      <<"<html>">> }

UpstreamStatuses == {200, 401, 500}

\* a relay that takes every status below 500 for a success
OkBelow500(status) == status < 500

\* Response.ok
Ok(status) == status >= 200 /\ status <= 299

(***************************************************************************)
(* Relay: the responses of the handler                                     *)
(***************************************************************************)
\* the upstream provider has not answered
NoAnswer == [kind |-> "none", status |-> 0, text |-> <<>>]

\* A response of the relay: the status line and the JSON body.  keys are
\* the properties of the object the handler built itself (error, detail,
\* jdoodleError); detail is the upstream status the template string of
\* line 68 formats; body is the serialised text of a passed-through result.
Response(status, keys, error, detail, jdoodleError, body) ==
    [status |-> status, keys |-> keys, error |-> error, detail |-> detail,
     jdoodleError |-> jdoodleError, body |-> body]

\* res.status(400).json({ error: ... })
ValidationResponse ==
    Response(400, {"error"}, "Missing code or language in request.",
             0, <<>>, <<>>)

\* res.status(502).json({ error, detail, jdoodleError })
UpstreamErrorResponse(status, errorText) ==
    Response(502, {"error", "detail", "jdoodleError"},
             "Compiler Service Authentication or API Error.",
             status, errorText, <<>>)

\* a relay that adds a property of its own to the result
ResultResponseTagged(result) ==
    Response(200, {}, "", 0, <<>>, JSONstringify(SetKey(result, "relay", "ok")))

\* res.json(result): the status stays at its default, 200
ResultResponse(result) ==
    Response(200, {}, "", 0, <<>>, JSONstringify(result))

\* res.status(500).json({ error: ... }) of the catch block
InternalErrorResponse ==
    Response(500, {"error"}, "Internal server error while executing code.",
             0, <<>>, <<>>)

\* a relay that spreads the request body over the payload
executionPayloadSpread(body) ==
    [clientId |-> IF body.clientId # Undefined THEN body.clientId ELSE CLIENT_ID,
     clientSecret |-> IF body.clientSecret # Undefined
                      THEN body.clientSecret ELSE CLIENT_SECRET,
     script |-> body.script,
     language |-> body.language,
     versionIndex |-> "0",
     stdin |-> ""]

\* the object JSON.stringify turns into the body of the upstream call
executionPayload(body) ==
    [clientId |-> CLIENT_ID,
     clientSecret |-> CLIENT_SECRET,
     script |-> body.script,
     language |-> body.language,
     versionIndex |-> "0",
     stdin |-> ""]

\* one call of fetch: where it goes and what it carries
FetchCall(body) == [url |-> JD_API_URL, payload |-> executionPayload(body)]

\* a validation that forgets the language
InvalidScriptOnly(body) == Falsy(body.script)

\* the handler's validation, line 29
Invalid(body) == Falsy(body.script) \/ Falsy(body.language)

\* a catch block that sends the cause along
MapResponseEchoesCause(status, text) ==
    IF ~Ok(status)
    THEN UpstreamErrorResponse(status, text)
    ELSE LET parsed == JSONparse(text) IN
         IF parsed.ok THEN ResultResponse(parsed.value)
         ELSE Response(500, {"error", "detail"},
                       "Internal server error while executing code.",
                       0, text, <<>>)

\* what the handler does with an upstream response whose body was read
MapResponse(status, text) ==
    IF ~Ok(status)
    THEN UpstreamErrorResponse(status, text)
    ELSE LET parsed == JSONparse(text) IN
         IF parsed.ok THEN ResultResponse(parsed.value)
         ELSE InternalErrorResponse

(***************************************************************************)
(* Relay: the handler, cut at its awaits                                   *)
(***************************************************************************)
InitRelay ==
    /\ pc = [r \in Reqs |-> "idle"]
    /\ reqBody = [r \in Reqs |-> NoBody]
    /\ upstream = [r \in Reqs |-> NoAnswer]
    /\ upstreamCalls = [r \in Reqs |-> <<>>]
    /\ sent = [r \in Reqs |-> <<>>]

\* lines 25-53: from the arrival of the request to the await of fetch
Execute(r, body) ==
    /\ pc[r] = "idle"
    /\ reqBody' = [reqBody EXCEPT ![r] = body]
    /\ IF Invalid(body)
       THEN /\ sent' = [sent EXCEPT ![r] = Append(@, ValidationResponse)]
            /\ pc' = [pc EXCEPT ![r] = "done"]
            /\ UNCHANGED upstreamCalls
       ELSE /\ upstreamCalls' =
                   [upstreamCalls EXCEPT ![r] = Append(@, FetchCall(body))]
            /\ pc' = [pc EXCEPT ![r] = "fetch"]
            /\ UNCHANGED sent
    /\ UNCHANGED <<upstream, clientVars>>

\* a catch block that tries the provider once more
FetchRejectsRetries(r) ==
    /\ pc[r] = "fetch"
    /\ IF Len(upstreamCalls[r]) < 2
       THEN /\ upstreamCalls' =
                   [upstreamCalls EXCEPT ![r] = Append(@, FetchCall(reqBody[r]))]
            /\ UNCHANGED <<pc, upstream, sent>>
       ELSE /\ upstream' = [upstream EXCEPT ![r].kind = "networkError"]
            /\ sent' = [sent EXCEPT ![r] = Append(@, InternalErrorResponse)]
            /\ pc' = [pc EXCEPT ![r] = "done"]
            /\ UNCHANGED upstreamCalls
    /\ UNCHANGED <<reqBody, clientVars>>

\* fetch rejects (DNS, refused connection, ...): lines 78-81
FetchRejects(r) ==
    /\ pc[r] = "fetch"
    /\ upstream' = [upstream EXCEPT ![r].kind = "networkError"]
    /\ sent' = [sent EXCEPT ![r] = Append(@, InternalErrorResponse)]
    /\ pc' = [pc EXCEPT ![r] = "done"]
    /\ UNCHANGED <<reqBody, upstreamCalls, clientVars>>

\* fetch resolves with the status line: lines 58-62 or 72, up to the
\* await of text() or json()
FetchResolves(r, status) ==
    /\ pc[r] = "fetch"
    /\ upstream' = [upstream EXCEPT ![r].kind = "headers", ![r].status = status]
    /\ pc' = [pc EXCEPT ![r] = "body"]
    /\ UNCHANGED <<reqBody, upstreamCalls, sent, clientVars>>

\* the body cannot be read (the connection breaks): text() or json()
\* rejects, lines 78-81
BodyRejects(r) ==
    /\ pc[r] = "body"
    /\ upstream' = [upstream EXCEPT ![r].kind = "bodyError"]
    /\ sent' = [sent EXCEPT ![r] = Append(@, InternalErrorResponse)]
    /\ pc' = [pc EXCEPT ![r] = "done"]
    /\ UNCHANGED <<reqBody, upstreamCalls, clientVars>>

\* a handler that keeps the upstream status in a variable of the module,
\* shared by the requests in flight
BodyArrivesSharedStatus(r, text) ==
    LET last == CHOOSE q \in Reqs :
                    /\ pc[q] = "body"
                    /\ \A o \in Reqs : pc[o] = "body" => o <= q
    IN
    /\ pc[r] = "body"
    /\ upstream' = [upstream EXCEPT ![r].kind = "response", ![r].text = text]
    /\ sent' = [sent EXCEPT
                  ![r] = Append(@, MapResponse(upstream[last].status, text))]
    /\ pc' = [pc EXCEPT ![r] = "done"]
    /\ UNCHANGED <<reqBody, upstreamCalls, clientVars>>

\* the body arrives: lines 62-70, or 72-76, or the SyntaxError of json()
\* and lines 78-81
BodyArrives(r, text) ==
    /\ pc[r] = "body"
    /\ upstream' = [upstream EXCEPT ![r].kind = "response", ![r].text = text]
    /\ sent' = [sent EXCEPT
                  ![r] = Append(@, MapResponse(upstream[r].status, text))]
    /\ pc' = [pc EXCEPT ![r] = "done"]
    /\ UNCHANGED <<reqBody, upstreamCalls, clientVars>>

NextRelay ==
    \E r \in Reqs :
        \/ \E body \in Bodies : Execute(r, body)
        \/ FetchRejects(r)
        \/ \E status \in UpstreamStatuses : FetchResolves(r, status)
        \/ BodyRejects(r)
        \/ \E text \in UpstreamTexts : BodyArrives(r, text)


(***************************************************************************)
(* Client: text.  A string is a sequence of tokens: the characters the     *)
(* code looks at (newline, blank, parentheses, quotes, #), the word print, *)
(* and chunks of other characters, which contain none of these at their    *)
(* ends and no "print".                                                    *)
(***************************************************************************)
NL == "\n"
DQ == "\""
SQ == "'"

HasNL(t) == \E i \in 1..Len(t) : t[i] = NL
FirstNL(t) == CHOOSE i \in 1..Len(t) : t[i] = NL /\ \A j \in 1..(i - 1) : t[j] # NL

\* String.prototype.split('\n')
RECURSIVE Split(_)
Split(t) ==
    IF ~HasNL(t) THEN <<t>>
    ELSE <<SubSeq(t, 1, FirstNL(t) - 1)>> \o Split(SubSeq(t, FirstNL(t) + 1, Len(t)))

\* Array.prototype.join('\n')
RECURSIVE Join(_)
Join(lines) ==
    IF lines = <<>> THEN <<>>
    ELSE IF Len(lines) = 1 THEN lines[1]
    ELSE lines[1] \o <<NL>> \o Join(Tail(lines))

\* String.prototype.trim()
RECURSIVE TrimLeft(_)
TrimLeft(l) ==
    IF l # <<>> /\ Head(l) = Blank THEN TrimLeft(Tail(l)) ELSE l

RECURSIVE TrimRight(_)
TrimRight(l) ==
    IF l # <<>> /\ l[Len(l)] = Blank THEN TrimRight(SubSeq(l, 1, Len(l) - 1)) ELSE l

Trim(l) == TrimRight(TrimLeft(l))

StartsWith(l, prefix) ==
    Len(l) >= Len(prefix) /\ SubSeq(l, 1, Len(prefix)) = prefix

\* the filter of line 209
IsPrintLine(line) ==
    StartsWith(Trim(line), <<"print", "(">>) /\ ~StartsWith(Trim(line), <<"#">>)

\* /print\s*\(([^)]+)\)/ tried at position i: the index of the "(" and of
\* the ")" that closes the group, when it matches there
ParenAfter(l, i) ==
    CHOOSE j \in (i + 1)..Len(l) :
        l[j] # Blank /\ \A m \in (i + 1)..(j - 1) : l[m] = Blank

CloseAfter(l, j) ==
    CHOOSE k \in (j + 1)..Len(l) :
        l[k] = ")" /\ \A m \in (j + 1)..(k - 1) : l[m] # ")"

MatchesAt(l, i) ==
    /\ l[i] = "print"
    /\ \E j \in (i + 1)..Len(l) :
          /\ l[j] = "("
          /\ \A m \in (i + 1)..(j - 1) : l[m] = Blank
          /\ \E k \in (j + 2)..Len(l) :
                l[k] = ")" /\ \A m \in (j + 1)..(k - 1) : l[m] # ")"

\* line.match(...): the first group of the leftmost match
HasMatch(l) == \E i \in 1..Len(l) : MatchesAt(l, i)

MatchGroup(l) ==
    LET i == CHOOSE i \in 1..Len(l) :
                 MatchesAt(l, i) /\ \A m \in 1..(i - 1) : ~MatchesAt(l, m)
        j == ParenAfter(l, i)
        k == CloseAfter(l, j)
    IN  SubSeq(l, j + 1, k - 1)

Quoted(c, q) == c # <<>> /\ c[1] = q /\ c[Len(c)] = q

\* lines 214-218; substring(1, 0) of a lone quote swaps its arguments
Unquote(content) ==
    LET c == Trim(content) IN
    IF Quoted(c, DQ) \/ Quoted(c, SQ)
    THEN IF Len(c) = 1 THEN c ELSE SubSeq(c, 2, Len(c) - 1)
    ELSE c

\* a map that gives the placeholder for every argument that is not a
\* quoted literal
PrintedByLiteralOnly(line) ==
    IF HasMatch(line)
          /\ LET c == Trim(MatchGroup(line)) IN
                 Len(c) >= 2 /\ (Quoted(c, DQ) \/ Quoted(c, SQ))
    THEN Unquote(MatchGroup(line))
    ELSE <<"...execution result...">>

\* the map of lines 210-221
PrintedBy(line) ==
    IF HasMatch(line) THEN Unquote(MatchGroup(line))
    ELSE <<"...execution result...">>

MapLines(lines) == [i \in 1..Len(lines) |-> PrintedBy(lines[i])]

NoPrintMessage ==
    <<"--- Execution Successful (Simulated) ---", NL,
      "No explicit print statements found in code.", NL,
      "This area will eventually display output from your cloud-based compiler.", NL,
      "---------------------------------------", NL,
      "Next Steps: Integrate AI Code Detector here.">>

getSimulatedOutput(inputCode) ==
    LET printStatements == MapLines(SelectSeq(Split(inputCode), IsPrintLine)) IN
    IF Len(printStatements) > 0
    THEN Join(<< <<"--- Execution Output (Parsed Print Statements) ---">> >>
              \o printStatements)
    ELSE NoPrintMessage

\* the initial value of useState, line 43
InitialCode ==
    <<"print", "(", DQ, "Hello, NEUDev!", DQ, ")", NL, NL,
      "#", Blank, "Your code analysis model will integrate here later!", NL>>

\* what the user may turn the buffer into
Buffers ==
    { InitialCode,
      <<"print", "(", DQ, "hi", DQ, ")", NL, "print", "(", "2+2", ")">>,
      <<"x", Blank, "=", Blank, "1">>,
      <<"print", "(", ")">> }


(***************************************************************************)
(* Client: the terminal                                                    *)
(***************************************************************************)
\* an initTerminal that registers the listener before it writes the banner
InitStepsListenFirst ==
    <<"construct", "addon", "loadAddon", "open", "fit", "listen", "banner">>

\* the statements of initTerminal's try block, lines 90-116, in order
InitSteps ==
    <<"construct", "addon", "loadAddon", "open", "fit", "banner", "listen">>

\* the steps that can throw: every one but addEventListener
ThrowingSteps == 1..(Len(InitSteps) - 1)

\* the steps completed when step failAt throws (0: none throws)
StepsDone(failAt) ==
    IF failAt = 0 THEN InitSteps ELSE SubSeq(InitSteps, 1, failAt - 1)

Did(steps, name) == \E i \in 1..Len(steps) : steps[i] = name

ReadyLines ==
    << <<"ESC[32;1m", "NEUDev Compiler Simulation Ready...", "ESC[0m">>,
       <<"----------------------------------------">>,
       <<>> >>

Banner == <<"NEUDev Compiler Simulation Initializing...">>

Compiling == <<"Compiling and running code...", NL, NL>>

\* writeToTerminal(text, clear) on a live terminal: the lines shown after
WrittenOn(shown, text, clear) ==
    (IF clear THEN ReadyLines ELSE shown) \o Split(text)

\* writeToTerminal(text, clear), lines 131-146: nothing without an
\* instance; a disposed instance shows nothing new
writeToTerminal(text, clear) ==
    IF terminalInstanceRef = "null"
    THEN UNCHANGED <<screen, deadWrites>>
    ELSE IF termDisposed
    THEN screen' = screen /\ deadWrites' = TRUE
    ELSE screen' = WrittenOn(screen, text, clear) /\ UNCHANGED deadWrites

(***************************************************************************)
(* Client: the component                                                   *)
(***************************************************************************)
editorLibReady == winMonaco
terminalLibReady == winTerminal /\ winFitAddon

\* the test of the poll, line 64
LibrariesAvailable == winMonaco /\ winTerminal /\ winFitAddon

\* a button that is enabled as soon as the loading screen is gone
RunDisabledWhileLoading == isLoading

\* the disabled attribute of the Run button, line 278
RunDisabled == ~isReady

\* the Run button is on the page and can be clicked
RunEnabled == mounted /\ ~isLoading /\ ~RunDisabled

InitClient ==
    /\ code = InitialCode
    /\ isReady = FALSE
    /\ isLoading = TRUE
    /\ winMonaco \in BOOLEAN
    /\ winTerminal \in BOOLEAN
    /\ winFitAddon \in BOOLEAN
    /\ mounted = TRUE
    /\ pollTimer = "active"
    /\ editor = "none"
    /\ editorCleanup = FALSE
    /\ settleTimer = FALSE
    /\ termSteps = <<>>
    /\ terminalInstanceRef = "null"
    /\ termDisposed = FALSE
    /\ resizeListener = FALSE
    /\ termCleanup = "none"
    /\ screen = <<>>
    /\ deadWrites = FALSE
    /\ pendingRuns = <<>>
    /\ netRequests = {}
    /\ editorsCreated = 0
    /\ terminalsCreated = 0
    /\ event = "mount"

\* a script loaded out of band sets its global
LibraryLoads ==
    /\ \/ ~winMonaco /\ winMonaco' = TRUE /\ UNCHANGED <<winTerminal, winFitAddon>>
       \/ ~winTerminal /\ winTerminal' = TRUE /\ UNCHANGED <<winMonaco, winFitAddon>>
       \/ ~winFitAddon /\ winFitAddon' = TRUE /\ UNCHANGED <<winMonaco, winTerminal>>
    /\ event' = "load"
    /\ UNCHANGED <<relayVars, renderVars, clientState>>

\* an editor effect that does not look at isReady
EditorEffectRunsWhenLoaded(loading, ready) == ~loading

\* the test of the editor effect, line 152, with the mount point present
EditorEffectRuns(loading, ready) == ~ready /\ ~loading

\* the body of the editor effect, lines 153-190: create throws and the
\* catch logs it, or the editor is there, its timer set, its cleanup held
EditorEffectCreates(throws) ==
    IF throws
    THEN UNCHANGED <<editor, editorCleanup, settleTimer, editorsCreated>>
    ELSE /\ editor' = "live" /\ editorCleanup' = TRUE /\ settleTimer' = TRUE
         /\ editorsCreated' = editorsCreated + 1

\* an initTerminal that registers the listener right after the fit pass,
\* and still returns the no-op cleanup when the banner throws
TerminalEffectInitsListensEarly(failAt) ==
    LET done == StepsDone(failAt) IN
    /\ termSteps' = done
    /\ terminalInstanceRef' = IF Did(done, "construct") THEN "term" ELSE "null"
    /\ terminalsCreated' =
          IF Did(done, "construct") THEN terminalsCreated + 1 ELSE terminalsCreated
    /\ screen' = IF Did(done, "banner")
                 THEN WrittenOn(screen, Banner, FALSE) ELSE screen
    /\ resizeListener' = Did(done, "fit")
    /\ termCleanup' = IF failAt = 0 THEN "full" ELSE "noop"

\* the terminal effect, lines 196-201, and initTerminal, lines 77-128, run
\* for isLoading = FALSE with the mount point present
TerminalEffectInits(failAt) ==
    LET done == StepsDone(failAt) IN
    /\ termSteps' = done
    /\ terminalInstanceRef' = IF Did(done, "construct") THEN "term" ELSE "null"
    /\ terminalsCreated' =
          IF Did(done, "construct") THEN terminalsCreated + 1 ELSE terminalsCreated
    /\ screen' = IF Did(done, "banner")
                 THEN WrittenOn(screen, Banner, FALSE) ELSE screen
    /\ resizeListener' = Did(done, "listen")
    /\ termCleanup' = IF failAt = 0 THEN "full" ELSE "noop"

\* the render that follows setIsLoading(false) and its effects: the editor
\* effect, then the terminal effect; no render when the state is unchanged
RenderLoaded(editorThrows, failAt) ==
    IF isLoading
    THEN /\ IF EditorEffectRuns(FALSE, isReady)
            THEN EditorEffectCreates(editorThrows)
            ELSE UNCHANGED <<editor, editorCleanup, settleTimer, editorsCreated>>
         /\ IF terminalInstanceRef = "null"
            THEN TerminalEffectInits(failAt)
            ELSE /\ termCleanup' = "noop"
                 /\ UNCHANGED <<termSteps, terminalInstanceRef, screen,
                                resizeListener, terminalsCreated>>
    ELSE /\ editorThrows = FALSE /\ failAt = 0
         /\ UNCHANGED <<termSteps, terminalInstanceRef, screen, resizeListener,
                        termCleanup, editor, editorCleanup, settleTimer,
                        editorsCreated, terminalsCreated>>

\* a poll that forgets clearInterval
PollObservesKeepsTimer(editorThrows, failAt) ==
    /\ UNCHANGED pollTimer
    /\ isLoading' = FALSE
    /\ RenderLoaded(editorThrows, failAt)

\* lines 65-66: the poll finds the three globals
PollObserves(editorThrows, failAt) ==
    /\ pollTimer' = "cleared"
    /\ isLoading' = FALSE
    /\ RenderLoaded(editorThrows, failAt)

\* the callback of setInterval, lines 62-68
PollTick(editorThrows, failAt) ==
    /\ pollTimer = "active"
    /\ event' = "tick"
    /\ IF LibrariesAvailable
       THEN PollObserves(editorThrows, failAt)
       ELSE /\ editorThrows = FALSE /\ failAt = 0
            /\ UNCHANGED <<pollTimer, isLoading, termSteps, terminalInstanceRef,
                           screen, resizeListener, termCleanup, editor,
                           editorCleanup, settleTimer, editorsCreated,
                           terminalsCreated>>
    /\ UNCHANGED <<code, isReady, mounted, termDisposed, deadWrites,
                   pendingRuns, netRequests>>
    /\ UNCHANGED <<relayVars, renderVars, winMonaco, winTerminal, winFitAddon>>

\* the callback of setTimeout(..., 500), line 182, and the render and the
\* effects that setIsReady(true) brings: the editor effect's dependencies
\* changed, so its cleanup (editor.dispose()) runs and its body is run
\* again, which finds isReady set; unmounted, the update is dropped
SettleTimerFires ==
    /\ settleTimer
    /\ event' = "settle"
    /\ IF mounted /\ ~isReady
       THEN /\ isReady' = TRUE
            /\ IF EditorEffectRuns(isLoading, TRUE)
               THEN EditorEffectCreates(FALSE)
               ELSE /\ editor' = IF editorCleanup THEN "disposed" ELSE editor
                    /\ editorCleanup' = FALSE
                    /\ settleTimer' = FALSE
                    /\ UNCHANGED editorsCreated
       ELSE /\ settleTimer' = FALSE
            /\ UNCHANGED <<isReady, editor, editorCleanup, editorsCreated>>
    /\ UNCHANGED <<code, isLoading, mounted, pollTimer, termSteps,
                   terminalInstanceRef, termDisposed, resizeListener,
                   termCleanup, screen, deadWrites, pendingRuns, netRequests,
                   terminalsCreated>>
    /\ UNCHANGED <<relayVars, renderVars, winMonaco, winTerminal, winFitAddon>>

\* onDidChangeModelContent, lines 175-177: the user types in the editor
Edit(buffer) ==
    /\ editor = "live"
    /\ code' = buffer
    /\ event' = "edit"
    /\ UNCHANGED <<isReady, isLoading, mounted, pollTimer, editor,
                   editorCleanup, settleTimer, termSteps, terminalInstanceRef,
                   termDisposed, resizeListener, termCleanup, screen,
                   deadWrites, pendingRuns, netRequests, editorsCreated,
                   terminalsCreated>>
    /\ UNCHANGED <<relayVars, renderVars, winMonaco, winTerminal, winFitAddon>>


\* a handler without the test of isReady
handleRunCodeUnguarded ==
    /\ mounted /\ ~isLoading
    /\ event' = "run"
    /\ Len(pendingRuns) < MaxPending
    /\ writeToTerminal(Compiling, TRUE)
    /\ pendingRuns' = Append(pendingRuns, code)
    /\ UNCHANGED <<code, isReady, isLoading, mounted, pollTimer, editor,
                   editorCleanup, settleTimer, termSteps, terminalInstanceRef,
                   termDisposed, resizeListener, termCleanup, netRequests,
                   editorsCreated, terminalsCreated>>
    /\ UNCHANGED <<relayVars, renderVars, winMonaco, winTerminal, winFitAddon>>

\* a handler whose timer callback reads the buffer of the first render
handleRunCodeStale ==
    /\ mounted /\ ~isLoading
    /\ event' = "run"
    /\ IF ~isReady
       THEN UNCHANGED <<screen, deadWrites, pendingRuns>>
       ELSE /\ Len(pendingRuns) < MaxPending
            /\ writeToTerminal(Compiling, TRUE)
            /\ pendingRuns' = Append(pendingRuns, InitialCode)
    /\ UNCHANGED <<code, isReady, isLoading, mounted, pollTimer, editor,
                   editorCleanup, settleTimer, termSteps, terminalInstanceRef,
                   termDisposed, resizeListener, termCleanup, netRequests,
                   editorsCreated, terminalsCreated>>
    /\ UNCHANGED <<relayVars, renderVars, winMonaco, winTerminal, winFitAddon>>

\* handleRunCode, lines 241-253, called while the Run button is on the page
handleRunCode ==
    /\ mounted /\ ~isLoading
    /\ event' = "run"
    /\ IF ~isReady
       THEN UNCHANGED <<screen, deadWrites, pendingRuns>>
       ELSE /\ Len(pendingRuns) < MaxPending
            /\ writeToTerminal(Compiling, TRUE)
            /\ pendingRuns' = Append(pendingRuns, code)
    /\ UNCHANGED <<code, isReady, isLoading, mounted, pollTimer, editor,
                   editorCleanup, settleTimer, termSteps, terminalInstanceRef,
                   termDisposed, resizeListener, termCleanup, netRequests,
                   editorsCreated, terminalsCreated>>
    /\ UNCHANGED <<relayVars, renderVars, winMonaco, winTerminal, winFitAddon>>

\* the callback of setTimeout(..., 1000), lines 247-252; callbacks of equal
\* delay run in the order they were set, each with the code of its closure
RunTimerFires ==
    /\ pendingRuns # <<>>
    /\ event' = "result"
    /\ writeToTerminal(getSimulatedOutput(Head(pendingRuns)), TRUE)
    /\ pendingRuns' = Tail(pendingRuns)
    /\ UNCHANGED <<code, isReady, isLoading, mounted, pollTimer, editor,
                   editorCleanup, settleTimer, termSteps, terminalInstanceRef,
                   termDisposed, resizeListener, termCleanup, netRequests,
                   editorsCreated, terminalsCreated>>
    /\ UNCHANGED <<relayVars, renderVars, winMonaco, winTerminal, winFitAddon>>

\* the component is torn down: the cleanups of lines 71, 185-187 and
\* 118-121 (or 126) run, whichever the effects returned
Unmount ==
    /\ mounted
    /\ mounted' = FALSE
    /\ event' = "unmount"
    /\ pollTimer' = "cleared"
    /\ IF editorCleanup
       THEN editor' = "disposed" /\ editorCleanup' = FALSE
       ELSE UNCHANGED <<editor, editorCleanup>>
    /\ IF termCleanup = "full"
       THEN resizeListener' = FALSE /\ termDisposed' = TRUE
       ELSE UNCHANGED <<resizeListener, termDisposed>>
    /\ termCleanup' = "none"
    /\ UNCHANGED <<code, isReady, isLoading, settleTimer, termSteps,
                   terminalInstanceRef, screen, deadWrites, pendingRuns,
                   netRequests, editorsCreated, terminalsCreated>>
    /\ UNCHANGED <<relayVars, renderVars, winMonaco, winTerminal, winFitAddon>>

NextClient ==
    \/ LibraryLoads
    \/ \E editorThrows \in BOOLEAN, failAt \in {0} \cup ThrowingSteps :
          PollTick(editorThrows, failAt)
    \/ SettleTimerFires
    \/ \E buffer \in Buffers : Edit(buffer)
    \/ handleRunCode
    \/ RunTimerFires
    \/ Unmount

(***************************************************************************)
(* Specifications                                                          *)
(***************************************************************************)
\* the renderer has not been called
InitRender == renderInput = <<>> /\ renderOutput = <<>>

\* the texts handed to getSimulatedOutput as inputCode, line 206
SeqsUpTo(S, n) == UNION {[1..k -> S] : k \in 0..n}

ArgTokens == {DQ, SQ, "hi", "2+2", Blank}

\* one line: optional indentation, print, an optional gap, "(", an argument
\* and what follows it
GeneratedLines ==
    { lead \o <<"print">> \o gap \o <<"(">> \o arg \o tail :
        lead \in {<<>>, <<Blank>>},
        gap \in {<<>>, <<Blank>>},
        arg \in SeqsUpTo(ArgTokens, MaxArgLen),
        tail \in {<<>>, <<")">>, <<")", Blank>>} }

CuratedLines ==
    { <<"print", "(", DQ, "hi", DQ, ")">>,
      <<"print", "(", "2+2", ")">>,
      <<Blank, "print", "(", SQ, "hi", SQ, ")", Blank>>,
      <<"print", "(", ")">>,
      <<"x", Blank, "=", Blank, "1">>,
      <<"#", Blank, "print", "(", DQ, "hi", DQ, ")">>,
      <<>> }

RenderInputs ==
    GeneratedLines
    \cup { Join(ls) : ls \in SeqsUpTo(CuratedLines, MaxLines) \ {<<>>} }
    \cup { InitialCode }

InitRenderAlone ==
    /\ InitRelay /\ InitClient
    /\ ~winMonaco /\ ~winTerminal /\ ~winFitAddon
    /\ renderInput \in RenderInputs
    /\ renderOutput = <<>>

\* one call of getSimulatedOutput, lines 206-238, on the text drawn
Render ==
    /\ renderOutput = <<>>
    /\ renderOutput' = getSimulatedOutput(renderInput)
    /\ UNCHANGED <<renderInput, relayVars, clientState, event,
                   winMonaco, winTerminal, winFitAddon>>

NextRender == Render

\* the renderer alone, applied to each text once
SpecRender == InitRenderAlone /\ [][NextRender]_vars

Init == InitRelay /\ InitClient /\ InitRender

\* the relay alone: the page is left as it starts, nothing loaded
InitRelayAlone == Init /\ ~winMonaco /\ ~winTerminal /\ ~winFitAddon
SpecRelay == InitRelayAlone /\ [][NextRelay]_vars

\* the client alone: no request reaches the relay
SpecClient == Init /\ [][NextClient]_vars


(***************************************************************************)
(* Properties of the relay, checked under SpecRelay                        *)
(***************************************************************************)
\* the request's handler has run to its end
Done(r) == pc[r] = "done"

AbsentOrEmpty(v) == v = Undefined \/ v = ""

\* both fields of the request are there
ValidRequest(r) ==
    /\ pc[r] # "idle"
    /\ ~AbsentOrEmpty(reqBody[r].script)
    /\ ~AbsentOrEmpty(reqBody[r].language)

SuccessStatus(status) == status \in 200..299

\* the one response of a request
Answer(r) == sent[r][1]

GenericMessage == "Internal server error while executing code."

IsGeneric(resp) ==
    /\ resp.status = 500
    /\ resp.keys = {"error"}
    /\ resp.error = GenericMessage
    /\ resp.jdoodleError = <<>> /\ resp.body = <<>> /\ resp.detail = 0

\* C1: a request whose script or language is absent or empty is answered
\* with status 400 and an error body, and the provider is not called for it.
C1_ValidationRejects ==
    \A r \in Reqs :
        ( /\ pc[r] # "idle"
          /\ AbsentOrEmpty(reqBody[r].script) \/ AbsentOrEmpty(reqBody[r].language) )
        => /\ Len(sent[r]) = 1
           /\ Answer(r).status = 400
           /\ "error" \in Answer(r).keys /\ Answer(r).error # ""
           /\ upstreamCalls[r] = <<>>

C1_Witness ==
    \E r \in Reqs :
        /\ Done(r)
        /\ reqBody[r].script = "print(1)" /\ reqBody[r].language = ""
        /\ Answer(r).status = 400

\* C2 as stated: every valid request whose upstream response has a
\* non-success status is answered with 502, carrying the upstream status
\* and the raw upstream body.
C2_NonSuccessIs502 ==
    \A r \in Reqs :
        ( /\ ValidRequest(r) /\ Done(r)
          /\ upstream[r].kind \in {"response", "bodyError"}
          /\ ~SuccessStatus(upstream[r].status) )
        => /\ Len(sent[r]) = 1
           /\ Answer(r).status = 502
           /\ Answer(r).detail = upstream[r].status
           /\ Answer(r).jdoodleError = upstream[r].text

\* C2, amended: every valid request whose upstream response has a
\* non-success status and a body that could be read is answered with 502
\* (not 200, not 400), carrying the upstream status and the raw body.
C2_NonSuccessReadIs502 ==
    \A r \in Reqs :
        ( /\ ValidRequest(r) /\ Done(r)
          /\ upstream[r].kind = "response"
          /\ ~SuccessStatus(upstream[r].status) )
        => /\ Len(sent[r]) = 1
           /\ Answer(r).status = 502
           /\ {"detail", "jdoodleError"} \subseteq Answer(r).keys
           /\ Answer(r).detail = upstream[r].status
           /\ Answer(r).jdoodleError = upstream[r].text

C2_Witness ==
    \E r \in Reqs :
        /\ Done(r) /\ ValidRequest(r)
        /\ upstream[r].kind = "response" /\ upstream[r].status = 401
        /\ upstream[r].text = <<"<html>">>
        /\ Answer(r).status = 502 /\ Answer(r).jdoodleError = <<"<html>">>

\* C3: every valid request whose upstream response has a success status and
\* a parseable body is answered with 200 and a body that parses to the
\* upstream result: no property added, removed or changed.
C3_ResultPassedThrough ==
    \A r \in Reqs :
        ( /\ ValidRequest(r) /\ Done(r)
          /\ upstream[r].kind = "response"
          /\ SuccessStatus(upstream[r].status)
          /\ JSONparse(upstream[r].text).ok )
        => /\ Len(sent[r]) = 1
           /\ Answer(r).status = 200
           /\ Answer(r).keys = {}
           /\ JSONparse(Answer(r).body).ok
           /\ JSONparse(Answer(r).body).value = JSONparse(upstream[r].text).value

C3_Witness ==
    \E r \in Reqs :
        /\ Done(r) /\ ValidRequest(r)
        /\ upstream[r].status = 200
        /\ upstream[r].text =
              <<"{", "output", ":", "42", ",", "statusCode", ":", "200", "}">>
        /\ Answer(r).status = 200
        /\ Answer(r).body = upstream[r].text

\* C4 as stated: every valid request for which the provider could not be
\* reached or whose upstream body cannot be parsed is answered with 500 and
\* the generic message.
C4_UnparseableIs500 ==
    \A r \in Reqs :
        ( /\ ValidRequest(r) /\ Done(r)
          /\ \/ upstream[r].kind \in {"networkError", "bodyError"}
             \/ /\ upstream[r].kind = "response"
                /\ ~JSONparse(upstream[r].text).ok )
        => Len(sent[r]) = 1 /\ IsGeneric(Answer(r))

\* C4, amended: every valid request for which the provider could not be
\* reached, or whose upstream body could not be read, or whose upstream
\* response has a success status and a body that cannot be parsed, is
\* answered with 500 and the generic message; any two such answers are
\* equal, whatever the cause.
C4_FailureIsGeneric500 ==
    LET Failed(r) ==
            /\ ValidRequest(r) /\ Done(r)
            /\ \/ upstream[r].kind \in {"networkError", "bodyError"}
               \/ /\ upstream[r].kind = "response"
                  /\ SuccessStatus(upstream[r].status)
                  /\ ~JSONparse(upstream[r].text).ok
    IN  /\ \A r \in Reqs : Failed(r) => Len(sent[r]) = 1 /\ IsGeneric(Answer(r))
        /\ \A r, q \in Reqs : Failed(r) /\ Failed(q) => sent[r] = sent[q]

C4_Witness ==
    \E r, q \in Reqs :
        /\ Done(r) /\ upstream[r].kind = "networkError"
        /\ Done(q) /\ upstream[q].kind = "response"
        /\ upstream[q].status = 200 /\ upstream[q].text = <<"<html>">>
        /\ Answer(r).status = 500 /\ Answer(q).status = 500

\* every string a response carries
StringsOf(resp) ==
    {resp.error} \cup {resp.jdoodleError[i] : i \in 1..Len(resp.jdoodleError)}
                 \cup {resp.body[i] : i \in 1..Len(resp.body)}

C6_SingleAttempt ==
    \A r \in Reqs :
        /\ Len(upstreamCalls[r]) <= 1
        /\ ValidRequest(r) => Len(upstreamCalls[r]) = 1
        /\ ~ValidRequest(r) => Len(upstreamCalls[r]) = 0

C6_Witness ==
    \E r, q \in Reqs :
        /\ Done(r) /\ upstream[r].kind = "networkError"
        /\ Len(upstreamCalls[r]) = 1
        /\ Done(q) /\ upstream[q].kind = "response" /\ upstream[q].status = 500
        /\ Len(upstreamCalls[q]) = 1


(***************************************************************************)
(* Properties of the client, checked under SpecClient                      *)
(***************************************************************************)
\* the editor was constructed and its settle delay has elapsed
SettleElapsed == editor # "none" /\ ~settleTimer

\* C7: once the user has triggered run while the client is interactive, an
\* execution request carrying the buffer has gone to /api/execute, and a
\* rendered result comes from such a request.
C7_RunSendsRequest ==
    (isReady /\ event \in {"run", "result"})
    => \E q \in netRequests : q.url = "/api/execute" /\ q.script = code

\* C8: while the component is on the page the Run button is enabled exactly
\* when the editor was constructed and its settle delay has elapsed, so it
\* is disabled while loading and during the delay; once enabled it stays
\* enabled under every poll tick, timer, edit and run.
C8_RunEnabledFromInteractive ==
    /\ [](mounted => (RunEnabled <=> SettleElapsed))
    /\ [][(RunEnabled /\ mounted') => RunEnabled']_vars

C8_Witness ==
    /\ RunEnabled /\ SettleElapsed
    /\ event = "result" /\ pendingRuns # <<>>

\* C9: a run triggered while the client is not interactive changes nothing:
\* terminal, timers, requests, buffer and readiness are as before.
C9_RunNotInteractiveIsNoOp ==
    [][(event' = "run" /\ ~isReady) => UNCHANGED clientState]_vars

C9_Witness ==
    /\ event = "run" /\ ~isReady /\ mounted
    /\ editor = "live" /\ settleTimer
    /\ terminalInstanceRef = "term"
    /\ pendingRuns = <<>>

\* C10: a poll tick that finds the editor library and the terminal library
\* available cancels the poll timer and leaves the loading state; ticks
\* fire only while loading; the loading state, once left, is left for good
\* and the timer stays cancelled.
C10_PollStopsOnceLoaded ==
    /\ [](~isLoading => pollTimer = "cleared")
    /\ [][(event' = "tick" /\ editorLibReady /\ terminalLibReady)
            => (pollTimer' = "cleared" /\ ~isLoading')]_vars
    /\ [][event' = "tick" => isLoading]_vars
    /\ [][~isLoading => ~isLoading']_vars

C10_Witness ==
    /\ ~isLoading /\ pollTimer = "cleared" /\ mounted
    /\ event = "settle"


\* the terminal widget exists and has not been disposed
TerminalLive == terminalInstanceRef = "term" /\ ~termDisposed

\* C11: once the component is torn down no resize listener is registered,
\* whether initTerminal completed, threw at any step or never ran.
C11_NoListenerAfterTeardown == ~mounted => ~resizeListener

C11_Witness ==
    /\ ~mounted /\ ~resizeListener
    /\ Did(termSteps, "listen") /\ termDisposed

\* C13: at most one editor instance and at most one terminal instance is
\* ever constructed.
C13_OneEditorOneTerminal == editorsCreated <= 1 /\ terminalsCreated <= 1

C13_Witness ==
    /\ editorsCreated = 1 /\ terminalsCreated = 1
    /\ isReady /\ editor = "disposed" /\ event = "result"

\* C14: at most one run is outstanding: no run is started while an earlier
\* one has not rendered its result.
C14_SingleOutstandingRun == Len(pendingRuns) <= 1

\* C15: the editor instance is disposed only on teardown: wherever the Run
\* button is enabled the editor is live.
C15_EditorLiveWhileRunEnabled == RunEnabled => editor = "live"

\* C16: after teardown the poll timer is cancelled, no resize listener is
\* left, and every editor and terminal instance that was constructed has
\* been disposed.
C16_AllReleasedOnTeardown ==
    ~mounted =>
        /\ pollTimer = "cleared"
        /\ ~resizeListener
        /\ editorsCreated > 0 => editor = "disposed"
        /\ terminalsCreated > 0 => termDisposed

\* the place of a step among the completed ones
Pos(steps, name) == CHOOSE i \in 1..Len(steps) : steps[i] = name

Before(steps, a, b) ==
    Did(steps, b) => Did(steps, a) /\ Pos(steps, a) < Pos(steps, b)

\* initTerminal ran only with the libraries loaded and the page rendered
StartedWhenLoaded == termSteps # <<>> => ~isLoading /\ LibrariesAvailable

\* C17 as stated: construct, attach, fit, register the resize listener, and
\* only then write the banner.
C17_ListenerBeforeBanner ==
    /\ Before(termSteps, "construct", "open")
    /\ Before(termSteps, "open", "fit")
    /\ Before(termSteps, "fit", "listen")
    /\ Before(termSteps, "listen", "banner")
    /\ StartedWhenLoaded

\* C17, amended: construct, attach, fit, write the banner, and only then
\* register the resize listener; initTerminal runs only once the libraries
\* are loaded and the mount point is rendered.
C17_BannerBeforeListener ==
    /\ Before(termSteps, "construct", "open")
    /\ Before(termSteps, "open", "fit")
    /\ Before(termSteps, "fit", "banner")
    /\ Before(termSteps, "banner", "listen")
    /\ StartedWhenLoaded

C17_Witness ==
    /\ mounted /\ ~isLoading
    /\ Did(termSteps, "banner") /\ Did(termSteps, "listen")
    /\ screen = <<Banner>> /\ resizeListener

\* C18: no write or clear reaches a terminal instance that has been
\* disposed, also when the delayed result of a run fires after teardown.
C18_NoWriteAfterDispose == ~deadWrites

\* C19: with a live terminal, a triggered run is queued behind the pending
\* ones with the buffer of that moment, and the results are rendered oldest
\* first, each from the buffer its run was triggered with; the last one
\* rendered is what the terminal shows.
C19_ResultsInTriggerOrder ==
    /\ [][(event' = "run" /\ isReady)
            => pendingRuns' = Append(pendingRuns, code)]_vars
    /\ [][event' = "result"
            => /\ pendingRuns # <<>>
               /\ pendingRuns' = Tail(pendingRuns)
               /\ TerminalLive =>
                    screen' = ReadyLines
                              \o Split(getSimulatedOutput(Head(pendingRuns)))]_vars

C19_Witness ==
    /\ event = "result" /\ TerminalLive
    /\ Len(pendingRuns) = 1
    /\ code # InitialCode
    /\ screen = ReadyLines \o Split(getSimulatedOutput(code))

\* the response fixed by a request's own body and own upstream outcome
OwnResponse(r) ==
    IF AbsentOrEmpty(reqBody[r].script) \/ AbsentOrEmpty(reqBody[r].language)
    THEN ValidationResponse
    ELSE IF upstream[r].kind \in {"networkError", "bodyError"}
         THEN InternalErrorResponse
         ELSE MapResponse(upstream[r].status, upstream[r].text)

\* C20: a request is answered when its handler ends and not before, with
\* one response of status 200, 400, 502 or 500; two requests with the same
\* body and the same upstream outcome get the same response, whatever the
\* other requests in flight do.
C20_OneResponseOwnOutcome ==
    /\ \A r \in Reqs :
          /\ ~Done(r) => sent[r] = <<>>
          /\ Done(r) => Len(sent[r]) = 1
                        /\ Answer(r).status \in {200, 400, 502, 500}
    /\ \A r \in Reqs : Done(r) => Answer(r) = OwnResponse(r)
    /\ \A r, q \in Reqs :
          (Done(r) /\ Done(q) /\ reqBody[r] = reqBody[q] /\ upstream[r] = upstream[q])
          => sent[r] = sent[q]

C20_Witness ==
    \E r, q \in Reqs :
        /\ r # q /\ Done(r) /\ Done(q)
        /\ Answer(r).status = 502 /\ Answer(q).status = 200


\* a line that produces output: print( after the indentation
IsOutputLine(l) ==
    LET t == Trim(l) IN Len(t) >= 2 /\ t[1] = "print" /\ t[2] = "("

\* print(ARG) with nothing after the closing parenthesis and no ")" in ARG
HasArgument(t) ==
    Len(t) >= 4 /\ t[Len(t)] = ")" /\ \A m \in 3..(Len(t) - 1) : t[m] # ")"

ArgumentOf(t) == Trim(SubSeq(t, 3, Len(t) - 1))

\* print() and a print( that is never closed
HasNoArgument(t) ==
    t = <<"print", "(", ")">> \/ \A m \in 1..Len(t) : t[m] # ")"

IsQuote(x) == x = DQ \/ x = SQ

EnclosedInQuotes(a) == Len(a) >= 2 /\ IsQuote(a[1]) /\ a[Len(a)] = a[1]

\* "text" or 'text' and nothing else
BareLiteral(a) ==
    EnclosedInQuotes(a) /\ \A m \in 2..(Len(a) - 1) : ~IsQuote(a[m])

\* an expression with no quote in it, such as 2+2
PlainExpression(a) == a # <<>> /\ \A m \in 1..Len(a) : ~IsQuote(a[m])

Inside(a) == SubSeq(a, 2, Len(a) - 1)

Placeholder == <<"...execution result...">>

OutputLinesOf(buffer) == SelectSeq(Split(buffer), IsOutputLine)

Rendered == renderOutput # <<>>

====
